---- MODULE Spec2Model ----
(***************************************************************************)
(* The accounts routes of the engine and the EnableBanking adapter behind   *)
(* them (apps/engine/src/routes/accounts/index.ts): the request-level      *)
(* deadline race, getAccounts with its sequential batches and per-item     *)
(* timeout races, getAccountBalance, getTransactions, the JWT body, the    *)
(* signed outbound calls of the adapter's operations, and the DELETE and   *)
(* balance routes.                                                         *)
(*                                                                         *)
(* Time is a discrete clock `now` (milliseconds since the request was      *)
(* received) that advances in steps of TickMs.  A timer fires once the     *)
(* clock has reached its deadline, and the clock does not advance past an  *)
(* armed timer that is due.  Provider calls complete, fail, or stay        *)
(* pending at any time.  One action is one event-loop task together with   *)
(* the promise continuations (microtasks) it triggers.                     *)
(***************************************************************************)
EXTENDS Integers, Sequences, FiniteSets, TLC

\* ---------------------------------------------------------------- constants
TOTAL_TIMEOUT == 28000
ACCOUNT_TIMEOUT == 8000
MAX_CONCURRENT == 2
expiresIn == 20
MaxTtlSeconds == 86400

\* ------------------------------------------------------------------- bounds
MaxAccounts == 5
Epoch0 == 1500
MaxBalances == 3
MaxTransactions == 3
JwtStepMs == 700
MaxCalls == 2
RouteAccounts == 1
LiveAccounts == 3

SessionIds == {"sess-A", "sess-B"}

VARIABLES
    now,          \* clock, ms since the request arrived
    reqId,        \* the session id of the request (query parameter id)
    handler,      \* GET /accounts handler: "idle" | "waiting" | "responded"
    reqTimer,     \* request-level timer: [state, deadline], armed until its race settles
    response,     \* the HTTP response sent, [status |-> 0] while none
    ga,           \* getAccounts: "idle" | "session" | "batch" | "returned" | "thrown"
    gaResult,     \* what getAccounts settled with
    session,      \* the session returned by getSession
    sessionCall,  \* the getSession call: "idle" | "pending" | "ok" | "fail"
    accountBatches, \* the batches built from session.accounts
    batchNo,      \* index of the batch being processed (1-based), 0 before
    details,      \* details[i]: the getAccountDetails call of position i:
                  \*   "idle" | "pending" | "ok" | "fail" | "released"
    balance,      \* balance[i]: the getAccountBalance call of position i, likewise
    abandoned,    \* calls of earlier batches still in flight (nothing awaits them)
    item,         \* item[i]: the Promise.race of position i
    itemTimer,    \* itemTimer[i]: the per-item timer, armed until its race settles
    allResults,   \* the settled results pushed so far
    failedAccounts, \* the ids logged as failed
    balCall,      \* a getAccountBalance call on its own: "idle" | "pending" | "ok" | "fail"
    balProvider,  \* the balances list the provider answered with
    balResult,    \* what getAccountBalance returned
    txCall,       \* a getTransactions call: "idle" | "pending" | "ok" | "fail"
    txParams,     \* its arguments [accountId, latest]
    txDate,       \* the calendar date (local time) at which it was called
    txQuery,      \* the query parameters it sent
    txResult,     \* what getTransactions returned
    jwt,          \* the body (decoded) of the token generated last, kept where one
                  \* operation is studied on its own
    adapterCalls, \* the adapter operations invoked, each with its outbound call
    tokenCount,   \* how many tokens #generateJWT has produced
    routes        \* DELETE /accounts and GET /accounts/balance: [handler, response]

gaVars == <<ga, gaResult, session, sessionCall, accountBatches, batchNo, details, balance, abandoned,
            item, itemTimer, allResults, failedAccounts>>
routeVars == <<reqId, handler, reqTimer, response, gaVars>>
balVars == <<balCall, balProvider, balResult>>
txVars == <<txCall, txParams, txDate, txQuery, txResult>>
callVars == <<adapterCalls, tokenCount, routes>>
otherVars == <<balVars, txVars, jwt, callVars>>
vars == <<now, routeVars, otherVars>>

Positions == 1..MaxAccounts

\* The clock's step, and where the clock stops.
TickMs == ACCOUNT_TIMEOUT \div 2
\* The session lookup settles while the request timer is armed or at the clock
\* value the timer fired at, and every batch ends within ACCOUNT_TIMEOUT.
MaxBatches == (MaxAccounts + MAX_CONCURRENT - 1) \div MAX_CONCURRENT
MaxTime == TOTAL_TIMEOUT + MaxBatches * ACCOUNT_TIMEOUT

\* ------------------------------------------------------------ pure helpers
Min(a, b) == IF a < b THEN a ELSE b

RECURSIVE SeqSum(_)
SeqSum(s) == IF s = <<>> THEN 0 ELSE Head(s) + SeqSum(Tail(s))

\* The ids of the session's accounts; position i (1-based) is session.accounts[i-1].
AccountIdAt(i) == 100 + i
SessionAccounts(n) == [i \in 1..n |-> AccountIdAt(i)]

\* Mutant: the end index is taken as inclusive.
SliceInclusive(s, from, to) == SubSeq(s, from + 1, Min(to + 1, Len(s)))

\* Array.prototype.slice(from, to) with 0-based from/to on a 1-based sequence.
Slice(s, from, to) == SubSeq(s, from + 1, Min(to, Len(s)))

\* Mutant: no batching, every account goes into one batch.
BatchesFromAll(accounts, i) == IF i < Len(accounts) THEN <<accounts>> ELSE <<>>

\* for (let i = 0; i < accounts.length; i += MAX_CONCURRENT) push(slice(i, i + MAX_CONCURRENT))
RECURSIVE BatchesFrom(_, _)
BatchesFrom(accounts, i) ==
    IF i < Len(accounts)
    THEN <<Slice(accounts, i, i + MAX_CONCURRENT)>> \o BatchesFrom(accounts, i + MAX_CONCURRENT)
    ELSE <<>>
AccountBatches(accounts) == BatchesFrom(accounts, 0)

\* The session positions (1-based) that batch b (1-based) processes.
BatchStart(batches, b) == SeqSum([k \in 1..(b - 1) |-> Len(batches[k])])
BatchPositions(batches, b) ==
    {BatchStart(batches, b) + j : j \in 1..Len(batches[b])}

\* ------------------------------------------------------------- JWT body
\* Date.now(): the request arrived at Epoch0 ms.
DateNow(t) == Epoch0 + t

\* #generateJWT: const exp = this.#expiresIn * 60 * 60
JwtTtl == expiresIn * 60 * 60

\* Mutant: the expiry is the TTL itself, not issued-at plus the TTL.
getJWTBodyNoIat(exp, t) ==
    [iss |-> "enablebanking.com", aud |-> "api.enablebanking.com",
     iat |-> DateNow(t) \div 1000, exp |-> exp]

\* #getJWTBody(exp), decoded: timestamp = Math.floor(Date.now() / 1000)
getJWTBody(exp, t) ==
    LET timestamp == DateNow(t) \div 1000
    IN  [iss |-> "enablebanking.com", aud |-> "api.enablebanking.com",
         iat |-> timestamp, exp |-> timestamp + exp]

\* #generateJWT at clock t (the body of the token that #getApi puts in the header)
generateJWT(t) == getJWTBody(JwtTtl, t)

\* ------------------------------------------------------ getAccountBalance
Digits == <<"0", "1", "2", "3", "4", "5", "6", "7", "8", "9">>
IsDigit(c) == \E d \in 1..10 : Digits[d] = c
DigitVal(c) == (CHOOSE d \in 1..10 : Digits[d] = c) - 1

\* The longest prefix of s made of digits.
RECURSIVE DigitPrefix(_)
DigitPrefix(s) ==
    IF s # <<>> /\ IsDigit(Head(s)) THEN <<Head(s)>> \o DigitPrefix(Tail(s)) ELSE <<>>

RECURSIVE DigitsValue(_, _)
DigitsValue(s, acc) ==
    IF s = <<>> THEN acc ELSE DigitsValue(Tail(s), acc * 10 + DigitVal(Head(s)))

\* Number.parseFloat on a string given as its characters: optional sign, digits,
\* optional fraction; the longest numeric prefix is parsed, NaN when there is none.
\* The value is kept in hundredths (amounts carry at most two fraction digits).
parseFloat(s) ==
    LET signed   == s # <<>> /\ Head(s) \in {"-", "+"}
        negative == signed /\ Head(s) = "-"
        body     == IF signed THEN Tail(s) ELSE s
        int      == DigitPrefix(body)
        rest     == SubSeq(body, Len(int) + 1, Len(body))
        frac     == IF rest # <<>> /\ Head(rest) = "." THEN DigitPrefix(Tail(rest)) ELSE <<>>
        frac2    == SubSeq(frac \o <<"0", "0">>, 1, 2)
        mag      == DigitsValue(int, 0) * 100 + DigitsValue(frac2, 0)
    IN  IF int = <<>> /\ frac = <<>>
        THEN [nan |-> TRUE, v |-> 0]
        ELSE [nan |-> FALSE, v |-> IF negative THEN 0 - mag ELSE mag]

\* currentAmount > maxAmount on doubles: false when either side is NaN
NumGt(x, y) == ~x.nan /\ ~y.nan /\ x.v > y.v

\* Mutant: the comparison is turned round (the lowest balance wins).
HigherOfLess(max, current) ==
    IF NumGt(parseFloat(max.balance_amount.amount),
             parseFloat(current.balance_amount.amount))
    THEN current ELSE max

\* the reducer: (max, current) => currentAmount > maxAmount ? current : max
HigherOf(max, current) ==
    LET currentAmount == parseFloat(current.balance_amount.amount)
        maxAmount     == parseFloat(max.balance_amount.amount)
    IN  IF NumGt(currentAmount, maxAmount) THEN current ELSE max

RECURSIVE Reduce(_, _)
Reduce(acc, s) == IF s = <<>> THEN acc ELSE Reduce(HigherOf(acc, Head(s)), Tail(s))

\* response.balances[0] of an empty list, and reduce over an empty list with it
Undefined == [balance_type |-> "undefined", balance_amount |-> [amount |-> <<>>]]

\* response.balances.reduce(reducer, response.balances[0])
HighestBalance(balances) ==
    IF balances = <<>> THEN Undefined ELSE Reduce(balances[1], balances)

\* What the provider answers for the balances of account a inside getAccounts.
ProviderBalances(a) ==
    << [balance_type |-> "CLBD", balance_amount |-> [amount |-> <<"9", ".", "5", "0">>]],
       [balance_type |-> "ITAV", balance_amount |-> [amount |-> <<"1", Digits[(a % 10) + 1]>>]],
       [balance_type |-> "XPCD", balance_amount |-> [amount |-> <<"-", "2", "0">>]] >>

\* ------------------------------------------------------------ getAccounts
NoResponse == [status |-> 0]
NoTimer == [state |-> "none", deadline |-> 0]
Idle == [status |-> "idle"]
Pending == [status |-> "pending"]
Settled(r) == r.status \in {"fulfilled", "rejected"}

\* { ...details, institution: session.aspsp, valid_until: session.access.valid_until, balance }
\* details is the provider's detail record of account a (its uid is a).
AccountRecord(sess, a) ==
    [uid |-> a, institution |-> sess.aspsp, valid_until |-> sess.access.valid_until,
     balance |-> HighestBalance(ProviderBalances(a))]

\* Mutant: the record is built as soon as the details have arrived.
AccountPromiseDetailsOnly(sess, a, d, b) ==
    IF d = "fail"
    THEN [status |-> "rejected", reason |-> [name |-> "XiorError", account |-> a]]
    ELSE IF d = "ok"
    THEN [status |-> "fulfilled", value |-> AccountRecord(sess, a)]
    ELSE Pending

\* accountPromise: Promise.all([getAccountDetails, getAccountBalance]) and the
\* record built from the pair, given the state d, b of the two calls.
AccountPromise(sess, a, d, b) ==
    IF d = "fail" \/ b = "fail"
    THEN [status |-> "rejected",
          reason |-> [name |-> "XiorError", account |-> a]]
    ELSE IF d = "ok" /\ b = "ok"
    THEN [status |-> "fulfilled", value |-> AccountRecord(sess, a)]
    ELSE Pending

\* Mutant: the timer's callback rejects nothing.
TimeoutRejectionNever(a) == Pending

\* Mutant: the timeout names the first account of the session, not its own.
TimeoutRejectionFirst(a) ==
    [status |-> "rejected",
     reason |-> [name |-> "Error", message |-> "Timeout processing account",
                 account |-> AccountIdAt(1)]]

\* reject(new Error(`Timeout processing account ${accountId}`))
TimeoutRejection(a) ==
    [status |-> "rejected",
     reason |-> [name |-> "Error", message |-> "Timeout processing account", account |-> a]]

\* Mutant: the last settlement wins.
RaceLatest(current, challenger) == IF Settled(challenger) THEN challenger ELSE current

\* Promise.race([accountPromise, timeoutPromise]): the first to settle wins
\* and a settled race never changes.
Race(current, challenger) ==
    IF Settled(current) THEN current
    ELSE IF Settled(challenger) THEN challenger ELSE current

\* Mutant: the index is taken inside the batch, not over all results.
FailedIdAtBatchLocal(sess, index) == sess.accounts[(index % MAX_CONCURRENT) + 1]

\* const accountId = session.accounts[index]  (index is 0-based over allResults)
FailedIdAt(sess, index) == sess.accounts[index + 1]

\* allResults.forEach: the values of the fulfilled results, in order
RECURSIVE SuccessfulOf(_)
SuccessfulOf(results) ==
    IF results = <<>> THEN <<>>
    ELSE (IF Head(results).status = "fulfilled" THEN <<Head(results).value>> ELSE <<>>)
         \o SuccessfulOf(Tail(results))

\* allResults.forEach: the ids pushed to failedAccounts, in order
RECURSIVE FailedFrom(_, _, _)
FailedFrom(sess, results, index) ==
    IF index >= Len(results) THEN <<>>
    ELSE (IF results[index + 1].status = "fulfilled" THEN <<>>
          ELSE <<FailedIdAt(sess, index)>>)
         \o FailedFrom(sess, results, index + 1)
FailedOf(sess, results) == FailedFrom(sess, results, 0)

\* What #signWithKey throws (line 300): the error of importPKCS8 or of sign.
SigningError == [name |-> "SigningError", message |-> "Error in JWT signing"]

\* throw new Error(`All accounts failed to process for session ${id}`)
AggregateError(id) ==
    [name |-> "Error", message |-> "All accounts failed to process for session",
     session |-> id]

\* Mutant: the empty list is returned when nothing succeeded.
GetAccountsOutcomeNoThrow(id, results) ==
    [status |-> "fulfilled", value |-> SuccessfulOf(results)]

\* Mutant: one failed account fails the whole call.
GetAccountsOutcomeStrict(id, results) ==
    IF \E k \in 1..Len(results) : results[k].status # "fulfilled"
    THEN [status |-> "rejected", reason |-> AggregateError(id)]
    ELSE [status |-> "fulfilled", value |-> SuccessfulOf(results)]

\* lines 502-535: what getAccounts settles with once every batch has settled
GetAccountsOutcome(id, results) ==
    LET successfulAccounts == SuccessfulOf(results)
    IN  IF Len(successfulAccounts) = 0
        THEN [status |-> "rejected", reason |-> AggregateError(id)]
        ELSE [status |-> "fulfilled", value |-> successfulAccounts]

\* ------------------------------------------------- GET /accounts handler
\* createErrorResponse(error) of @engine/utils/error
createErrorResponse(error) ==
    [error |-> [code |-> IF error.name = "ProviderError" THEN error.code ELSE "unknown",
                message |-> error]]

\* Mutant: an error of the delegated operation is swallowed into an empty answer.
ResponseForSwallow(settlement) ==
    IF settlement.status = "fulfilled"
    THEN [status |-> 200, data |-> settlement.value]
    ELSE [status |-> 200, data |-> <<>>]

\* c.json({ data }, 200) / catch: c.json(createErrorResponse(error), 400)
ResponseFor(settlement) ==
    IF settlement.status = "fulfilled"
    THEN [status |-> 200, data |-> settlement.value]
    ELSE [status |-> 400, body |-> createErrorResponse(settlement.reason)]

\* Mutant: the handler answers again with whatever settles later.
HandlerSettlesLate(settlement) ==
    /\ handler' = "responded"
    /\ response' = ResponseFor(settlement)
    /\ reqTimer' = NoTimer

\* await Promise.race([accountsPromise, timeoutPromise]) continues with the
\* first settlement only; a later one finds the handler already responded.
\* (The request timer is never cleared by the code; once the race has settled
\* its firing has no effect, so the state drops it.)
HandlerSettles(settlement) ==
    IF handler = "waiting"
    THEN handler' = "responded" /\ response' = ResponseFor(settlement)
         /\ reqTimer' = NoTimer
    ELSE UNCHANGED <<handler, response, reqTimer>>

\* ------------------------------------------------------------------ state
NoSession == [accounts |-> <<>>, aspsp |-> [name |-> "", country |-> ""],
              access |-> [valid_until |-> ""]]

NoJwt == [iss |-> "", aud |-> "", iat |-> 0, exp |-> 0]
NoParams == [accountId |-> 0, latest |-> FALSE]
NoQuery == [strategy |-> "", transaction_status |-> ""]
NoDate == [year |-> 0, month |-> 0, day |-> 0]
OtherRoutes == {"DELETE /accounts", "GET /accounts/balance"}

\* The adapter operations other than the accounts route are at rest.
OthersIdle ==
    /\ balCall = "idle" /\ balProvider = <<>> /\ balResult = Undefined
    /\ txCall = "idle" /\ txParams = NoParams /\ txQuery = NoQuery /\ txDate = NoDate
    /\ txResult = [transactions |-> <<>>]
    /\ jwt = NoJwt
    /\ adapterCalls = <<>> /\ tokenCount = 0
    /\ routes = [r \in OtherRoutes |-> [handler |-> "idle", response |-> NoResponse]]

RouteIdle(id) ==
    /\ reqId = id
    /\ handler = "idle"
    /\ reqTimer = NoTimer
    /\ response = NoResponse
    /\ ga = "idle"
    /\ gaResult = Pending
    /\ session = NoSession
    /\ sessionCall = "idle"
    /\ accountBatches = <<>>
    /\ batchNo = 0
    /\ details = [i \in Positions |-> "idle"]
    /\ balance = [i \in Positions |-> "idle"]
    /\ item = [i \in Positions |-> Idle]
    /\ itemTimer = [i \in Positions |-> NoTimer]
    /\ allResults = <<>>
    /\ failedAccounts = <<>>
    /\ abandoned = 0

Init ==
    /\ now = 0
    /\ \E id \in SessionIds : RouteIdle(id)
    /\ OthersIdle

\* The promises of a batch that has settled are referenced by nobody: the state
\* keeps of its calls only how many are still in flight.
\* Mutant: a call that failed is started again with the next batch.
ReleaseRetry(call) ==
    IF call = "idle" THEN "idle" ELSE IF call = "fail" THEN "pending" ELSE "released"

Release(call) == IF call = "idle" THEN "idle" ELSE "released"
PendingIn(calls) == Cardinality({i \in Positions : calls[i] = "pending"})

\* processAccountBatch(batch b): every item of the batch starts its two calls
\* and arms its timer.
StartBatch(batches, b, item1, details1, balance1, timer1) ==
    LET pos == BatchPositions(batches, b)
    IN  /\ batchNo' = b
        /\ item' = [i \in Positions |-> IF i \in pos THEN Pending ELSE item1[i]]
        /\ details' = [i \in Positions |->
                         IF i \in pos THEN "pending" ELSE Release(details1[i])]
        /\ balance' = [i \in Positions |->
                         IF i \in pos THEN "pending" ELSE Release(balance1[i])]
        /\ abandoned' = abandoned + PendingIn(details1) + PendingIn(balance1)
        /\ itemTimer' = [i \in Positions |->
                           IF i \in pos
                           THEN [state |-> "armed", deadline |-> now + ACCOUNT_TIMEOUT]
                           ELSE timer1[i]]

\* lines 502-543: partition the results, log the failed ids, return or throw;
\* the handler's race continues if it has not settled yet.
FinishGetAccounts(sess, results) ==
    LET outcome == GetAccountsOutcome(reqId, results)
    IN  /\ failedAccounts' = FailedOf(sess, results)
        /\ gaResult' = outcome
        /\ ga' = IF outcome.status = "fulfilled" THEN "returned" ELSE "thrown"
        /\ HandlerSettles(outcome)

\* Mutant: the batch is taken as settled once one of its items has settled.
BatchSettledAny(item1, pos) == \E p \in pos : Settled(item1[p])

\* Promise.allSettled(...) of line 452 resolves once every item has settled.
BatchSettled(item1, pos) == \A p \in pos : Settled(item1[p])

\* Mutant: the results of a batch are delivered last item first.
BatchResultsReversed(item1, batches, b) ==
    LET len == Len(batches[b])
    IN  [j \in 1..len |-> item1[BatchStart(batches, b) + (len + 1 - j)]]

\* The value of Promise.allSettled: the results of the batch's items in the
\* order of accountIds, whatever the order they settled in.
BatchResults(item1, batches, b) ==
    [j \in 1..Len(batches[b]) |-> item1[BatchStart(batches, b) + j]]

\* The continuation after an event on the items of the current batch:
\* Promise.allSettled resolves once every item of the batch has settled, the
\* results are pushed in item order, and the loop starts the next batch or ends.
\* (An item timer is never cleared by the code; once its race has settled its
\* firing has no effect, so the state drops it.)
AfterItemEvent(item1, details1, balance1, timer0) ==
    LET timer1  == [i \in Positions |-> IF Settled(item1[i]) THEN NoTimer ELSE timer0[i]]
        batches == accountBatches
        pos     == BatchPositions(batches, batchNo)
        batchResults == BatchResults(item1, batches, batchNo)
    IN  IF ga = "batch" /\ BatchSettled(item1, pos)
        THEN /\ allResults' = allResults \o batchResults
             /\ IF batchNo < Len(batches)
                THEN /\ StartBatch(batches, batchNo + 1, item1, details1, balance1, timer1)
                     /\ UNCHANGED <<ga, gaResult, failedAccounts, handler, response,
                                    reqTimer>>
                ELSE /\ FinishGetAccounts(session, allResults \o batchResults)
                     /\ item' = item1 /\ details' = details1
                     /\ balance' = balance1 /\ itemTimer' = timer1
                     /\ UNCHANGED <<batchNo, abandoned>>
        ELSE /\ item' = item1 /\ details' = details1
             /\ balance' = balance1 /\ itemTimer' = timer1
             /\ UNCHANGED <<allResults, batchNo, abandoned, ga, gaResult, failedAccounts,
                            handler, response, reqTimer>>

\* ---------------------------------------------------------------- actions
\* GET /accounts handler, lines 60-75: arm the request timer, call getAccounts,
\* which calls getSession (lines 436-440).
HandleRequest ==
    /\ handler = "idle"
    /\ handler' = "waiting"
    /\ reqTimer' = [state |-> "armed", deadline |-> now + TOTAL_TIMEOUT]
    /\ ga' = "session"
    /\ sessionCall' = "pending"
    /\ UNCHANGED <<otherVars, now, reqId, response, gaResult, session, accountBatches, batchNo,
                   details, balance, abandoned, item, itemTimer, allResults,
                   failedAccounts>>

\* getSession resolves with a session listing n account ids; getAccounts builds
\* the batches and starts the first one (or finishes when there is none).
SessionOk(n) ==
    /\ sessionCall = "pending"
    /\ sessionCall' = "ok"
    /\ LET sess == [accounts |-> SessionAccounts(n),
                    aspsp |-> [name |-> "Nordea", country |-> "SE"],
                    access |-> [valid_until |-> "2026-12-31T00:00:00Z"]]
           batches == AccountBatches(sess.accounts)
       IN  /\ session' = sess
           /\ accountBatches' = batches
           /\ IF batches = <<>>
              THEN /\ FinishGetAccounts(sess, <<>>)
                   /\ UNCHANGED <<batchNo, details, balance, abandoned, item, itemTimer>>
              ELSE /\ StartBatch(batches, 1, item, details, balance, itemTimer)
                   /\ ga' = "batch"
                   /\ UNCHANGED <<gaResult, failedAccounts, handler, response, reqTimer>>
    /\ UNCHANGED <<otherVars, now, reqId, allResults>>

\* getSession rejects (non-2xx or transport failure): getAccounts logs and rethrows.
SessionFail ==
    /\ sessionCall = "pending"
    /\ sessionCall' = "fail"
    /\ LET outcome == [status |-> "rejected",
                       reason |-> [name |-> "XiorError", call |-> "sessions"]]
       IN  /\ gaResult' = outcome
           /\ ga' = "thrown"
           /\ HandlerSettles(outcome)
    /\ UNCHANGED <<otherVars, now, reqId, session, accountBatches, batchNo, details, balance,
                   abandoned, item, itemTimer, allResults, failedAccounts>>

\* The signing of getSession's token fails (#signWithKey throws): no request is
\* sent, getSession rejects, getAccounts logs and rethrows.
SessionSignFail ==
    /\ sessionCall = "pending"
    /\ sessionCall' = "fail"
    /\ LET outcome == [status |-> "rejected", reason |-> SigningError]
       IN  /\ gaResult' = outcome
           /\ ga' = "thrown"
           /\ HandlerSettles(outcome)
    /\ UNCHANGED <<otherVars, now, reqId, session, accountBatches, batchNo, details, balance,
                   abandoned, item, itemTimer, allResults, failedAccounts>>

\* The getAccountDetails call of position i completes with result r.
DetailsDone(i, r) ==
    /\ details[i] = "pending"
    /\ LET details1 == [details EXCEPT ![i] = r]
           item1 == [item EXCEPT ![i] =
                       Race(@, AccountPromise(session, session.accounts[i], r, balance[i]))]
       IN  AfterItemEvent(item1, details1, balance, itemTimer)
    /\ UNCHANGED <<otherVars, now, reqId, session, sessionCall, accountBatches>>

\* The getAccountBalance call of position i completes with result r.
BalanceDone(i, r) ==
    /\ balance[i] = "pending"
    /\ LET balance1 == [balance EXCEPT ![i] = r]
           item1 == [item EXCEPT ![i] =
                       Race(@, AccountPromise(session, session.accounts[i], details[i], r))]
       IN  AfterItemEvent(item1, details, balance1, itemTimer)
    /\ UNCHANGED <<otherVars, now, reqId, session, sessionCall, accountBatches>>

DetailsOk(i) == DetailsDone(i, "ok")
DetailsFail(i) == DetailsDone(i, "fail")
BalanceOk(i) == BalanceDone(i, "ok")
BalanceFail(i) == BalanceDone(i, "fail")

\* The per-item timer of position i fires (lines 455-463).
ItemTimeout(i) ==
    /\ itemTimer[i].state = "armed"
    /\ now >= itemTimer[i].deadline
    /\ LET timer1 == [itemTimer EXCEPT ![i] = NoTimer]
           item1 == [item EXCEPT ![i] = Race(@, TimeoutRejection(session.accounts[i]))]
       IN  AfterItemEvent(item1, details, balance, timer1)
    /\ UNCHANGED <<otherVars, now, reqId, session, sessionCall, accountBatches>>

\* A call of an earlier batch completes or fails: its promise settles and no
\* continuation reads it.
LateCompletion ==
    /\ abandoned > 0
    /\ abandoned' = abandoned - 1
    /\ UNCHANGED <<otherVars, now, reqId, handler, reqTimer, response, ga, gaResult, session,
                   sessionCall, accountBatches, batchNo, details, balance, item, itemTimer, allResults,
                   failedAccounts>>

\* The request-level timer fires (lines 65-67): reject(new Error("Request timeout")).
RequestTimeout ==
    /\ reqTimer.state = "armed"
    /\ now >= reqTimer.deadline
    /\ HandlerSettles([status |-> "rejected",
                       reason |-> [name |-> "Error", message |-> "Request timeout"]])
    /\ UNCHANGED <<otherVars, now, reqId, gaVars>>

\* Time passes; a timer that is due fires before the clock moves on.  The clock
\* is read by the timers only, so it is advanced only while one is armed.
ArmedTimers == ({reqTimer} \cup {itemTimer[i] : i \in Positions}) \ {NoTimer}
TimerDue == \E t \in ArmedTimers : t.deadline <= now

Tick ==
    /\ ArmedTimers # {}
    /\ ~TimerDue
    /\ now + TickMs <= MaxTime
    /\ now' = now + TickMs
    /\ UNCHANGED <<routeVars, otherVars>>

Next ==
    \/ HandleRequest
    \/ \E n \in 0..MaxAccounts : SessionOk(n)
    \/ SessionFail
    \/ SessionSignFail
    \/ \E i \in Positions : DetailsOk(i)
    \/ \E i \in Positions : DetailsFail(i)
    \/ \E i \in Positions : BalanceOk(i)
    \/ \E i \in Positions : BalanceFail(i)
    \/ \E i \in Positions : ItemTimeout(i)
    \/ LateCompletion
    \/ RequestTimeout
    \/ Tick

Spec == Init /\ [][Next]_vars

\* --------------------------------------------- getAccountBalance on its own
\* The amounts a provider sends: decimal strings, given as their characters.
AmountStrings ==
    { <<"0">>, <<"9">>, <<"1", "0">>, <<"-", "5">>, <<"-", "2", "0">>,
      <<"9", ".", "5">>, <<"9", ".", "5", "0">>, <<"1", "0", ".", "2", "5">> }
BalanceTypes == <<"CLBD", "ITAV", "XPCD", "ITBD", "OTHR">>
BalanceLists ==
    UNION { { [k \in 1..n |-> [balance_type |-> BalanceTypes[Min(k, Len(BalanceTypes))],
                               balance_amount |-> [amount |-> amounts[k]]]]
              : amounts \in [1..n -> AmountStrings] }
            : n \in 0..MaxBalances }

\* getAccountBalance(accountId), line 548: the GET of the balances is sent.
BalanceRequest ==
    /\ balCall = "idle"
    /\ balCall' = "pending"
    /\ jwt' = generateJWT(now)
    /\ UNCHANGED <<now, routeVars, balProvider, balResult, txVars, callVars>>

\* lines 552-559: the provider answers and the highest balance is returned.
BalanceResponse(balances) ==
    /\ balCall = "pending"
    /\ balCall' = "ok"
    /\ balProvider' = balances
    /\ balResult' = HighestBalance(balances)
    /\ UNCHANGED <<now, routeVars, txVars, jwt, callVars>>

\* the GET rejects: getAccountBalance rejects with the same error.
BalanceError ==
    /\ balCall = "pending"
    /\ balCall' = "fail"
    /\ UNCHANGED <<now, routeVars, balProvider, balResult, txVars, jwt, callVars>>

NextBalance ==
    \/ BalanceRequest
    \/ \E balances \in BalanceLists : BalanceResponse(balances)
    \/ BalanceError

SpecBalance == Init /\ [][NextBalance]_vars

\* ------------------------------------------------------- getTransactions
TransactionStatuses == {"BOOK", "PDNG", "OTHR"}
TransactionLists ==
    UNION { [1..n -> [status : TransactionStatuses]] : n \in 0..MaxTransactions }

\* Calendar dates [year, month, day] in local time; new Date() is one of these.
IsLeap(y) == (y % 4 = 0 /\ y % 100 # 0) \/ y % 400 = 0
DaysInMonth(y, m) ==
    IF m = 2 THEN (IF IsLeap(y) THEN 29 ELSE 28)
    ELSE IF m \in {4, 6, 9, 11} THEN 30 ELSE 31
TodayDates ==
    { [year |-> 2024, month |-> 1, day |-> 1],   [year |-> 2024, month |-> 3, day |-> 2],
      [year |-> 2024, month |-> 3, day |-> 5],   [year |-> 2025, month |-> 3, day |-> 4],
      [year |-> 2025, month |-> 1, day |-> 5],   [year |-> 2025, month |-> 6, day |-> 15],
      [year |-> 2024, month |-> 12, day |-> 31], [year |-> 2025, month |-> 10, day |-> 6] }

\* Date.prototype.setDate(d) on the month of date: a day below 1 or beyond the
\* month's end carries into the neighbouring month.
RECURSIVE SetDate(_, _)
SetDate(date, d) ==
    IF d < 1
    THEN LET py == IF date.month = 1 THEN date.year - 1 ELSE date.year
             pm == IF date.month = 1 THEN 12 ELSE date.month - 1
         IN  SetDate([year |-> py, month |-> pm, day |-> 1], d + DaysInMonth(py, pm))
    ELSE IF d > DaysInMonth(date.year, date.month)
    THEN LET ny == IF date.month = 12 THEN date.year + 1 ELSE date.year
             nm == IF date.month = 12 THEN 1 ELSE date.month + 1
         IN  SetDate([year |-> ny, month |-> nm, day |-> 1],
                     d - DaysInMonth(date.year, date.month))
    ELSE [year |-> date.year, month |-> date.month, day |-> d]

\* date-fns addDays(date, amount): date.setDate(date.getDate() + amount)
addDays(date, amount) == SetDate(date, date.day + amount)

\* Mutant: the days are added.
subDaysForward(date, amount) == addDays(date, amount)

\* date-fns subDays(date, amount): addDays(date, -amount)
subDays(date, amount) == addDays(date, 0 - amount)

\* The decimal digits of n, left-padded with "0" to the given width.
RECURSIVE Padded(_, _)
Padded(n, width) ==
    IF width = 0 THEN <<>> ELSE Padded(n \div 10, width - 1) \o <<Digits[(n % 10) + 1]>>

\* date-fns formatISO(date, { representation: "date" }): "YYYY-MM-DD", as characters
formatISO(date) ==
    Padded(date.year, 4) \o <<"-">> \o Padded(date.month, 2) \o <<"-">> \o Padded(date.day, 2)

\* the query of lines 568-576, built on the calendar date today
TransactionsQuery(latest, today) ==
    IF latest
    THEN [strategy |-> "default", transaction_status |-> "BOOK",
          date_from |-> formatISO(subDays(today, 5))]
    ELSE [strategy |-> "longest", transaction_status |-> "BOOK"]

\* getTransactions({ accountId, latest }), line 566: the GET is sent.
TransactionsRequest(accountId, latest, today) ==
    /\ txCall = "idle"
    /\ txCall' = "pending"
    /\ txParams' = [accountId |-> accountId, latest |-> latest]
    /\ txDate' = today
    /\ txQuery' = TransactionsQuery(latest, today)
    /\ jwt' = generateJWT(now)
    /\ UNCHANGED <<now, routeVars, balVars, txResult, callVars>>

\* What getTransactions makes of the provider's answer: #get returns the body.
TransactionsResult(body) == body

\* The provider answers: not every bank applies the transaction_status filter,
\* so the list may hold transactions of any status.
TransactionsResponse(list) ==
    /\ txCall = "pending"
    /\ txCall' = "ok"
    /\ txResult' = TransactionsResult([transactions |-> list])
    /\ UNCHANGED <<now, routeVars, balVars, txParams, txDate, txQuery, jwt, callVars>>

TransactionsError ==
    /\ txCall = "pending"
    /\ txCall' = "fail"
    /\ UNCHANGED <<now, routeVars, balVars, txParams, txDate, txQuery, txResult, jwt, callVars>>

NextTransactions ==
    \/ \E a \in {AccountIdAt(1), AccountIdAt(2)}, latest \in BOOLEAN, today \in TodayDates :
          TransactionsRequest(a, latest, today)
    \/ \E list \in TransactionLists : TransactionsResponse(list)
    \/ TransactionsError

SpecTransactions == Init /\ [][NextTransactions]_vars

\* ------------------------------------------------------------ #generateJWT
\* #getApi builds a client for an outbound call: a token is generated.
GetApi ==
    /\ jwt' = generateJWT(now)
    /\ UNCHANGED <<now, routeVars, balVars, txVars, callVars>>

\* Time passes between two outbound calls.
ClockStep ==
    /\ now + JwtStepMs <= MaxTime
    /\ now' = now + JwtStepMs
    /\ UNCHANGED <<routeVars, balVars, txVars, jwt, callVars>>

NextJWT == GetApi \/ ClockStep

SpecJWT == Init /\ [][NextJWT]_vars

\* ------------------------------------------- the adapter's outbound calls
Operations ==
    {"authenticate", "exchangeCode", "getSession", "getHealthCheck", "getInstitutions",
     "getAccountDetails", "getAccountBalance", "getTransactions", "deleteSession"}

\* #post for authenticate and exchangeCode, api.delete for deleteSession, #get otherwise
Method(op) ==
    IF op \in {"authenticate", "exchangeCode"} THEN "POST"
    ELSE IF op = "deleteSession" THEN "DELETE" ELSE "GET"

Path(op) ==
    CASE op = "authenticate" -> "/auth"
      [] op = "exchangeCode" -> "/sessions"
      [] op = "getSession" -> "/sessions/{sessionId}"
      [] op = "getHealthCheck" -> "/application"
      [] op = "getInstitutions" -> "/aspsps"
      [] op = "getAccountDetails" -> "/accounts/{accountId}/details"
      [] op = "getAccountBalance" -> "/accounts/{accountId}/balances"
      [] op = "getTransactions" -> "/accounts/{accountId}/transactions"
      [] op = "deleteSession" -> "/sessions/{sessionId}"

\* What xior rejects with: a non-2xx response whose body carries an error code,
\* a non-2xx response whose body carries none, and a failure without a response.
UpstreamErrors ==
    { [name |-> "XiorError",
       response |-> [status |-> 404, data |-> [error |-> "SESSION_NOT_FOUND"]]],
      [name |-> "XiorError",
       response |-> [status |-> 500, data |-> [message |-> "Internal Server Error"]]],
      [name |-> "XiorError", message |-> "Network error"] }

\* The body of the provider's 2xx answer to each call.
ResponseBody(op) ==
    CASE op = "authenticate" -> [url |-> "https://enablebanking.com/auth"]
      [] op = "exchangeCode" -> [session_id |-> "sess-A"]
      [] op = "getSession" -> [accounts |-> SessionAccounts(1)]
      [] op = "getHealthCheck" -> [message |-> "ok"]
      [] op = "getInstitutions" -> [aspsps |-> <<[name |-> "Nordea", country |-> "SE"]>>]
      [] op = "getAccountDetails" -> [uid |-> AccountIdAt(1)]
      [] op = "getAccountBalance" -> [balances |-> ProviderBalances(AccountIdAt(1))]
      [] op = "getTransactions" -> [transactions |-> <<[status |-> "BOOK"]>>]
      [] op = "deleteSession" -> [message |-> "OK"]

\* transformSessionData of ./transform
transformSessionData(data) == [transformed |-> data]

\* error.response?.data?.error ?? "ENABLEBANKING_ERROR"
UpstreamCode(error) ==
    IF "response" \in DOMAIN error /\ "data" \in DOMAIN error.response
       /\ "error" \in DOMAIN error.response.data
    THEN error.response.data.error
    ELSE "ENABLEBANKING_ERROR"

\* new ProviderError({ message, code })
ProviderError(message, code) == [name |-> "ProviderError", message |-> message, code |-> code]

\* What each adapter operation makes of the settlement of its outbound call
\* (lines 360-431, 545-583).
OperationOutcome(op, settlement) ==
    LET ok == settlement.status = "fulfilled"
    IN  CASE op = "exchangeCode" ->
               IF ok THEN [status |-> "fulfilled", value |-> transformSessionData(settlement.value)]
               ELSE [status |-> "rejected",
                     reason |-> ProviderError("Failed to exchange code",
                                              UpstreamCode(settlement.reason))]
          [] op = "getHealthCheck" -> [status |-> "fulfilled", value |-> ok]
          [] op = "getInstitutions" ->
               IF ok THEN [status |-> "fulfilled", value |-> settlement.value.aspsps]
               ELSE settlement
          [] op = "getAccountBalance" ->
               IF ok THEN [status |-> "fulfilled",
                           value |-> HighestBalance(settlement.value.balances)]
               ELSE settlement
          [] op = "deleteSession" ->
               IF ok THEN [status |-> "fulfilled", value |-> "undefined"] ELSE settlement
          [] OTHER -> settlement

NoRequest == [method |-> "", path |-> "", bearer |-> [serial |-> 0]]
NoSettlement == [status |-> "none"]

\* Mutant: the token of the first call is kept and sent again.
getApiCached(count) ==
    IF count = 0
    THEN [generated |-> 1, bearer |-> [serial |-> 1]]
    ELSE [generated |-> count, bearer |-> [serial |-> count]]

\* #getApi (lines 313-324): a token is generated and a client is created with
\* it as its Authorization header; count tokens have been generated before, and
\* a token is identified by its serial number.
getApi(count) ==
    [generated |-> count + 1, bearer |-> [serial |-> count + 1]]

\* DELETE /accounts answers { success: true }, the other routes { data }.
RouteResponseFor(route, settlement) ==
    IF route = "DELETE /accounts" /\ settlement.status = "fulfilled"
    THEN [status |-> 200, body |-> [success |-> TRUE]]
    ELSE ResponseFor(settlement)

\* An adapter operation is invoked by caller: its outbound call starts with
\* `await this.#getApi()`, the signing.
Invoke(op, caller) ==
    adapterCalls' = Append(adapterCalls,
        [op |-> op, caller |-> caller, state |-> "signing", asked |-> tokenCount,
         request |-> NoRequest, upstream |-> NoSettlement, outcome |-> Pending])

\* The outbound call of operation k settles: the operation settles, and the
\* route handler that awaits it answers.
Settle(k, state, upstream) ==
    LET c == adapterCalls[k]
        outcome == OperationOutcome(c.op, upstream)
    IN  /\ adapterCalls' = [adapterCalls EXCEPT ![k].state = state, ![k].upstream = upstream,
                                               ![k].outcome = outcome]
        /\ routes' = IF c.caller \in OtherRoutes
                     THEN [routes EXCEPT ![c.caller] =
                             [handler |-> "responded",
                              response |-> RouteResponseFor(c.caller, outcome)]]
                     ELSE routes

\* An operation is invoked directly.
InvokeOperation(op) ==
    /\ Len(adapterCalls) < MaxCalls
    /\ Invoke(op, "none")
    /\ UNCHANGED <<now, routeVars, balVars, txVars, jwt, tokenCount, routes>>

\* #signWithKey succeeds: the token is complete, the client is created and the
\* request is sent with it (lines 331-347, 355-357, 581-582).
SignOk(k) ==
    /\ k \in 1..Len(adapterCalls) /\ adapterCalls[k].state = "signing"
    /\ LET api == getApi(tokenCount)
           op  == adapterCalls[k].op
       IN  /\ tokenCount' = api.generated
           /\ adapterCalls' = [adapterCalls EXCEPT ![k].state = "sent",
                  ![k].request = [method |-> Method(op), path |-> Path(op),
                                  bearer |-> api.bearer]]
    /\ UNCHANGED <<now, routeVars, balVars, txVars, jwt, routes>>

\* #signWithKey throws: #generateJWT, #getApi and the #get/#post/delete reject.
SignFail(k) ==
    /\ k \in 1..Len(adapterCalls) /\ adapterCalls[k].state = "signing"
    /\ Settle(k, "settled", [status |-> "rejected", reason |-> SigningError])
    /\ UNCHANGED <<now, routeVars, balVars, txVars, jwt, tokenCount>>

\* The provider answers 2xx.
HttpOk(k) ==
    /\ k \in 1..Len(adapterCalls) /\ adapterCalls[k].state = "sent"
    /\ Settle(k, "settled",
              [status |-> "fulfilled", value |-> ResponseBody(adapterCalls[k].op)])
    /\ UNCHANGED <<now, routeVars, balVars, txVars, jwt, tokenCount>>

\* The provider answers non-2xx, or the request fails in transport.
HttpFail(k, error) ==
    /\ k \in 1..Len(adapterCalls) /\ adapterCalls[k].state = "sent"
    /\ Settle(k, "settled", [status |-> "rejected", reason |-> error])
    /\ UNCHANGED <<now, routeVars, balVars, txVars, jwt, tokenCount>>

NextCalls ==
    \/ \E op \in Operations : InvokeOperation(op)
    \/ \E k \in 1..MaxCalls : SignOk(k)
    \/ \E k \in 1..MaxCalls : SignFail(k)
    \/ \E k \in 1..MaxCalls : HttpOk(k)
    \/ \E k \in 1..MaxCalls, error \in UpstreamErrors : HttpFail(k, error)

\* No request of GET /accounts is distinguished here: one session id.
InitRoutes == Init /\ reqId = "sess-A"

SpecCalls == InitRoutes /\ [][NextCalls]_vars

\* ------------------------------ DELETE /accounts and GET /accounts/balance
\* The operation of the adapter that the Provider facade (@engine/providers)
\* delegates the route's call to.
DelegatedOperation(route) ==
    IF route = "DELETE /accounts" THEN "deleteSession" ELSE "getAccountBalance"

\* The handler of lines 126-154 resp. 183-211 up to its await: the delegated
\* operation is invoked.
RouteRequest(route) ==
    /\ routes[route].handler = "idle"
    /\ routes' = [routes EXCEPT ![route].handler = "waiting"]
    /\ Invoke(DelegatedOperation(route), route)
    /\ UNCHANGED <<now, routeVars, balVars, txVars, jwt, tokenCount>>

\* The three routes, each serving one request; the session of GET /accounts
\* lists at most RouteAccounts ids (one batch, so no call is left behind by a
\* later batch).
NextRoutes ==
    \/ HandleRequest
    \/ \E n \in 0..RouteAccounts : SessionOk(n)
    \/ SessionFail
    \/ SessionSignFail
    \/ \E i \in Positions : DetailsOk(i)
    \/ \E i \in Positions : DetailsFail(i)
    \/ \E i \in Positions : BalanceOk(i)
    \/ \E i \in Positions : BalanceFail(i)
    \/ \E i \in Positions : ItemTimeout(i)
    \/ RequestTimeout
    \/ Tick
    \/ \E route \in OtherRoutes : RouteRequest(route)
    \/ \E k \in 1..MaxCalls : SignOk(k)
    \/ \E k \in 1..MaxCalls : SignFail(k)
    \/ \E k \in 1..MaxCalls : HttpOk(k)
    \/ \E k \in 1..MaxCalls, error \in UpstreamErrors : HttpFail(k, error)

SpecRoutes == InitRoutes /\ [][NextRoutes]_vars

\* ------------------------------------------------ GET /accounts, fairly
\* The event loop runs every timer that is due and time does not stop; no
\* provider call has to complete.  The session lists at most LiveAccounts ids.
NextLive ==
    \/ HandleRequest
    \/ \E n \in 0..LiveAccounts : SessionOk(n)
    \/ SessionFail
    \/ SessionSignFail
    \/ \E i \in Positions : DetailsOk(i)
    \/ \E i \in Positions : DetailsFail(i)
    \/ \E i \in Positions : BalanceOk(i)
    \/ \E i \in Positions : BalanceFail(i)
    \/ \E i \in Positions : ItemTimeout(i)
    \/ LateCompletion
    \/ RequestTimeout
    \/ Tick

Fairness ==
    /\ WF_vars(Tick)
    /\ WF_vars(RequestTimeout)
    /\ \A i \in Positions : WF_vars(ItemTimeout(i))

SpecLive == InitRoutes /\ [][NextLive]_vars /\ Fairness

\* ================================================================= claims
N == Len(session.accounts)
Ids == 1..N
AccountsDone == sessionCall = "ok" /\ ga \in {"returned", "thrown"}
Fulfilled(i) == item[i].status = "fulfilled"
Rejected(i) == item[i].status = "rejected"
TimedOut(i) == Rejected(i) /\ item[i].reason.name = "Error"
CallFailed(i) == Rejected(i) /\ item[i].reason.name = "XiorError"
\* the calls of position i are still part of the state (its batch is the current one)
Tracked(i) == details[i] \notin {"idle", "released"}
SameBatch(i, j) == \E b \in 1..Len(accountBatches) :
                      {i, j} \subseteq BatchPositions(accountBatches, b)
SeqRange(s) == {s[k] : k \in 1..Len(s)}
FailedPositions == {i \in Ids : Rejected(i)}

\* C1: when getAccounts has processed a session of N ids and the items of a
\* strict subset S of the positions failed (rejected or timed out), it returns
\* (does not throw) exactly N-|S| accounts, those of the ids outside S, and the
\* ids it reports as failed are exactly the ids of S.
C1_PartialFailure ==
    (AccountsDone /\ Cardinality(FailedPositions) < N) =>
        /\ ga = "returned"
        /\ gaResult.status = "fulfilled"
        /\ Len(gaResult.value) = N - Cardinality(FailedPositions)
        /\ {r.uid : r \in SeqRange(gaResult.value)} =
               {session.accounts[i] : i \in Ids \ FailedPositions}
        /\ Len(failedAccounts) = Cardinality(FailedPositions)
        /\ SeqRange(failedAccounts) = {session.accounts[i] : i \in FailedPositions}

\* C1 witness: a returned call whose failures lie in two different batches.
C1_Witness ==
    /\ AccountsDone /\ ga = "returned" /\ N = MaxAccounts
    /\ Rejected(2) /\ Rejected(3) /\ Fulfilled(1)
    /\ failedAccounts = <<AccountIdAt(2), AccountIdAt(3)>>

\* C2: when every one of the N >= 1 items failed, getAccounts throws the
\* aggregate error, which names the session id of the request, and returns no
\* accounts.
C2_AllFailed ==
    (AccountsDone /\ N >= 1 /\ FailedPositions = Ids) =>
        /\ ga = "thrown"
        /\ gaResult.status = "rejected"
        /\ gaResult.reason.message = "All accounts failed to process for session"
        /\ gaResult.reason.session = reqId

\* C2 witness: three items, failed by a provider error and by timeouts.
C2_Witness ==
    /\ AccountsDone /\ ga = "thrown" /\ N = 3
    /\ CallFailed(1) /\ TimedOut(2) /\ TimedOut(3)
    /\ reqId = "sess-B" /\ gaResult.reason.session = "sess-B"

\* The detail and balance calls started and not yet completed.
InFlightCalls == PendingIn(details) + PendingIn(balance) + abandoned
AwaitedItems == {i \in Positions : item[i].status = "pending"}
AwaitedCalls ==
    Cardinality({i \in AwaitedItems : details[i] = "pending"})
      + Cardinality({i \in AwaitedItems : balance[i] = "pending"})

IsTimeoutOf(r, a) ==
    /\ r.status = "rejected" /\ r.reason.name = "Error"
    /\ r.reason.message = "Timeout processing account" /\ r.reason.account = a

\* What holds of every item whose calls are tracked, whatever its siblings do.
C4_ItemByItsOwnWork(i) ==
    /\ TimedOut(i) => IsTimeoutOf(item[i], session.accounts[i])
    /\ (details[i] = "ok" /\ balance[i] = "ok") => (Fulfilled(i) \/ TimedOut(i))
    /\ Fulfilled(i) => (details[i] = "ok" /\ balance[i] = "ok")
    /\ item[i].status = "pending" =>
          /\ itemTimer[i].state = "armed" /\ now <= itemTimer[i].deadline
          /\ "pending" \in {details[i], balance[i]}

\* The step in which the timer of position i settles its race.
C4_TimeoutStep(i) ==
    item[i].status = "pending" /\ IsTimeoutOf(item'[i], session.accounts[i])

\* C4: an item whose work is not complete when its timer fires is recorded as
\* a failure that names its own account id; the step changes the outcome of no
\* sibling of its batch; and a sibling whose two calls succeeded before its own
\* timer fired is recorded as a success.
C4_TimeoutIsolated ==
    /\ [](\A i \in Ids : Tracked(i) => C4_ItemByItsOwnWork(i))
    /\ [][\A i \in Ids : C4_TimeoutStep(i) =>
             /\ "pending" \in {details[i], balance[i]}
             /\ now >= itemTimer[i].deadline
             /\ \A j \in Ids \ {i} : SameBatch(i, j) => item'[j] = item[j]]_vars

\* C4 witness: in one batch an item has timed out and its sibling has succeeded.
C4_Witness ==
    \E i, j \in Ids :
        /\ i # j /\ SameBatch(i, j) /\ Tracked(i) /\ Tracked(j)
        /\ TimedOut(i) /\ "pending" \in {details[i], balance[i]}
        /\ Fulfilled(j) /\ details[j] = "ok" /\ balance[j] = "ok"

RequestTimeoutResponse ==
    [status |-> 400,
     body |-> createErrorResponse([name |-> "Error", message |-> "Request timeout"])]

\* C5: when getAccounts has not settled by the time the request timer fires,
\* the handler answers 400 with the error shape; an answer is never replaced,
\* so a result that settles later is never returned; and no answer with data
\* is produced after the deadline.
C5_DeadlineWins ==
    /\ [](response.status \in {0, 200, 400})
    /\ [][(handler = "waiting" /\ handler' = "responded" /\ gaResult'.status = "pending")
             => (now >= TOTAL_TIMEOUT /\ response' = RequestTimeoutResponse)]_vars
    /\ [][response.status # 0 => response' = response]_vars
    /\ [][(response.status = 0 /\ response'.status = 200) => now <= TOTAL_TIMEOUT]_vars

\* C5 witness: the handler answered with the timeout and getAccounts returned
\* accounts afterwards.
C5_Witness ==
    /\ response = RequestTimeoutResponse
    /\ ga = "returned" /\ Len(gaResult.value) >= 1

\* The records of the items that succeeded, in session order.
RECURSIVE SuccessesFrom(_)
SuccessesFrom(i) ==
    IF i > N THEN <<>>
    ELSE (IF Fulfilled(i) THEN <<item[i].value>> ELSE <<>>) \o SuccessesFrom(i + 1)

\* C6: when getAccounts finishes before the request deadline with at least one
\* success, the response is 200 and its data are exactly the accounts that
\* succeeded, however many items failed or timed out; with 5 ids of which 4
\* succeed and the 5th times out, the response is 200 with those 4 accounts.
C6_PartialIsSuccess ==
    /\ (AccountsDone /\ now < TOTAL_TIMEOUT /\ \E i \in Ids : Fulfilled(i)) =>
          response = [status |-> 200, data |-> SuccessesFrom(1)]
    /\ (AccountsDone /\ now < TOTAL_TIMEOUT /\ N = 5 /\ TimedOut(5)
          /\ \A i \in 1..4 : Fulfilled(i)) =>
          /\ response.status = 200
          /\ Len(response.data) = 4
          /\ \A i \in 1..4 : response.data[i].uid = session.accounts[i]

\* C6 witness: 5 ids, 4 succeeded, the 5th timed out, answered 200.
C6_Witness ==
    /\ AccountsDone /\ N = 5 /\ TimedOut(5) /\ \A i \in 1..4 : Fulfilled(i)
    /\ response.status = 200 /\ Len(response.data) = 4

\* C7: every record getAccounts returns is the record of an item both of whose
\* calls succeeded, for that item's own id; an item one of whose calls failed is
\* a failure and has no record.
C7_RecordFromPair ==
    /\ \A i \in Ids :
          /\ (Tracked(i) /\ Fulfilled(i)) => (details[i] = "ok" /\ balance[i] = "ok")
          /\ (Tracked(i) /\ "fail" \in {details[i], balance[i]}) => Rejected(i)
          /\ Fulfilled(i) =>
                /\ item[i].value.uid = session.accounts[i]
                /\ item[i].value.balance \in SeqRange(ProviderBalances(session.accounts[i]))
    /\ \A k \in 1..Len(allResults) :
          allResults[k].status = "fulfilled" => allResults[k] = item[k]
    /\ ga = "returned" =>
          \A r \in SeqRange(gaResult.value) :
              \E i \in Ids : Fulfilled(i) /\ r = item[i].value

\* C7 witness: a returned call with one item built from its pair and one item
\* whose details arrived but whose balance failed.
C7_Witness ==
    /\ ga = "returned" /\ N = 2 /\ Fulfilled(1)
    /\ details[2] = "ok" /\ balance[2] = "fail" /\ Rejected(2)
    /\ Len(gaResult.value) = 1

AmountOf(entry) == parseFloat(entry.balance_amount.amount).v

\* C8: for a provider list of at least one balance, getAccountBalance returns
\* an entry of the list whose amount is at least the amount of every entry.
C8_HighestBalance ==
    (balCall = "ok" /\ Len(balProvider) >= 1) =>
        /\ balResult \in SeqRange(balProvider)
        /\ \A k \in 1..Len(balProvider) : AmountOf(balResult) >= AmountOf(balProvider[k])

\* C8 witness: the highest amount is "10", which is not the first entry and
\* follows "9" (the greater string).
C8_Witness ==
    /\ balCall = "ok" /\ Len(balProvider) = 3
    /\ balProvider[1].balance_amount.amount = <<"9">>
    /\ balProvider[2].balance_amount.amount = <<"-", "5">>
    /\ balProvider[3].balance_amount.amount = <<"1", "0">>
    /\ balResult = balProvider[3]

\* C9 as stated: every transaction getTransactions returns has booked status,
\* whatever list the provider answered with.
C9_OnlyBooked ==
    txCall = "ok" =>
        \A k \in 1..Len(txResult.transactions) : txResult.transactions[k].status = "BOOK"

\* C10: every generated token has expiry = issued-at + the configured TTL of
\* 20 hours in seconds, and expiry minus issued-at is at most 86400 seconds.
C10_TokenExpiry ==
    jwt # NoJwt =>
        /\ jwt.exp = jwt.iat + expiresIn * 3600
        /\ jwt.exp - jwt.iat <= MaxTtlSeconds

\* C10 witness: a token generated some seconds after the first one.
C10_Witness ==
    /\ jwt # NoJwt /\ jwt.iat >= 30
    /\ jwt.exp = jwt.iat + 72000

\* ---------------------------------------------------------- C12 .. C18
Started(i) == details[i] # "idle" \/ balance[i] # "idle"

\* C12: batches run strictly in sequence: a detail or balance call of an
\* account of a later batch has been started only if every item of every
\* earlier batch has settled (succeeded, failed or timed out), and the calls of
\* the items of one batch are started together.
C12_BatchesInSequence ==
    LET nb  == Len(accountBatches)
        pos == [b \in 1..nb |-> BatchPositions(accountBatches, b)]
    IN  \A b \in 1..nb :
            (\E i \in pos[b] : Started(i)) =>
                /\ \A i \in pos[b] : details[i] # "idle" /\ balance[i] # "idle"
                /\ \A c \in 1..(b - 1) : \A j \in pos[c] : Settled(item[j])

\* C12 witness: the second batch is being processed after the first batch
\* settled by a success and a timeout whose calls are still in flight.
C12_Witness ==
    /\ N >= 4 /\ batchNo = 2 /\ ga = "batch"
    /\ Fulfilled(1) /\ TimedOut(2) /\ abandoned >= 1
    /\ Started(3) /\ Started(4) /\ ~Started(5)
    /\ item[3].status = "pending"

RECURSIVE Concat(_)
Concat(ss) == IF ss = <<>> THEN <<>> ELSE Head(ss) \o Concat(Tail(ss))

\* C13: the batches are consecutive slices of the session's ids in session
\* order, each of size 1..MAX_CONCURRENT; every position of the session is in
\* exactly one batch; there are ceil(N / 2) batches.
C13_Partition ==
    sessionCall = "ok" =>
        /\ Concat(accountBatches) = session.accounts
        /\ \A b \in 1..Len(accountBatches) :
              Len(accountBatches[b]) >= 1 /\ Len(accountBatches[b]) <= MAX_CONCURRENT
        /\ \A i \in Ids :
              Cardinality({b \in 1..Len(accountBatches) :
                              i \in BatchPositions(accountBatches, b)}) = 1
        /\ \A b \in 1..Len(accountBatches) : BatchPositions(accountBatches, b) \subseteq Ids
        /\ 2 * Len(accountBatches) >= N /\ 2 * Len(accountBatches) <= N + 1

\* C13 witness: an odd number of ids, the last batch holds one id.
C13_Witness ==
    /\ sessionCall = "ok" /\ N = 5 /\ Len(accountBatches) = 3
    /\ accountBatches[2] = <<AccountIdAt(3), AccountIdAt(4)>>
    /\ accountBatches[3] = <<AccountIdAt(5)>>

IsPrefix(s, t) == Len(s) <= Len(t) /\ SubSeq(t, 1, Len(s)) = s
RouteOutcome == <<item, allResults, gaResult, failedAccounts, response>>

\* C16: a per-item timeout cancels no call (nothing in flight is withdrawn by
\* the step); a call of a timed-out item that completes or fails later changes
\* no outcome at all; an item recorded as timed out stays so, recorded results
\* never change, and no returned account belongs to a timed-out item.
C16_LateResultDiscarded ==
    /\ [][\A i \in Ids : C4_TimeoutStep(i) => InFlightCalls' >= InFlightCalls]_vars
    /\ [][\A i \in Ids : TimedOut(i) => item'[i] = item[i]]_vars
    /\ [][IsPrefix(allResults, allResults')]_vars
    /\ [][\A i \in Ids :
            (TimedOut(i) /\ (   (details[i] = "pending" /\ details'[i] \in {"ok", "fail"})
                             \/ (balance[i] = "pending" /\ balance'[i] \in {"ok", "fail"})))
               => RouteOutcome' = RouteOutcome]_vars
    /\ [][abandoned' < abandoned => RouteOutcome' = RouteOutcome]_vars
    /\ [](ga = "returned" =>
            \A i \in Ids : TimedOut(i) =>
                \A r \in SeqRange(gaResult.value) : r.uid # session.accounts[i])

\* C16 witness: getAccounts returned one account; the other item timed out and
\* both its calls succeeded afterwards.
C16_Witness ==
    /\ ga = "returned" /\ N = 2 /\ Fulfilled(1) /\ TimedOut(2)
    /\ details[2] = "ok" /\ balance[2] = "ok"
    /\ Len(gaResult.value) = 1 /\ response.status = 200 /\ Len(response.data) = 1

\* A call is invoked when it leaves "idle"; it is invoked again when it comes
\* back to "pending" from a later state.
InvokedOnce(call, call1) ==
    /\ (call = "idle" /\ call1 # "idle") => call1 = "pending"
    /\ (call # "idle" /\ call1 = "pending") => call = "pending"

\* C17: no retries: in one getAccounts the detail call and the balance call of
\* every position are invoked at most once, also after a failure or a timeout,
\* and the session lookup is invoked exactly once.
C17_NoRetries ==
    /\ [][/\ \A i \in Positions : InvokedOnce(details[i], details'[i])
          /\ \A i \in Positions : InvokedOnce(balance[i], balance'[i])
          /\ InvokedOnce(sessionCall, sessionCall')]_vars
    /\ [](ga # "idle" <=> sessionCall # "idle")
    /\ [](\A i \in Positions : i > N => ~Started(i))

\* C17 witness: the details of the first item failed and the second item
\* timed out with its calls pending, and getAccounts is over.
C17_Witness ==
    /\ AccountsDone /\ N = 2
    /\ details[1] = "fail" /\ CallFailed(1)
    /\ TimedOut(2) /\ details[2] = "pending" /\ balance[2] = "pending"

\* C18 as stated: getAccounts throws the aggregate error only when nothing
\* succeeded and N > 0; for a session of zero ids it returns the empty list.
C18_EmptySessionReturnsEmpty ==
    AccountsDone =>
        /\ ga = "thrown" => (N > 0 /\ \A i \in Ids : Rejected(i))
        /\ N = 0 => (ga = "returned" /\ gaResult = [status |-> "fulfilled", value |-> <<>>])

\* ------------------------------------------------------------------ C20
\* The number of the day of a calendar date, counted from 1 January 2000.
RECURSIVE DaysBeforeYear(_)
DaysBeforeYear(y) ==
    IF y <= 2000 THEN 0 ELSE DaysBeforeYear(y - 1) + (IF IsLeap(y - 1) THEN 366 ELSE 365)
RECURSIVE DaysBeforeMonth(_, _)
DaysBeforeMonth(y, m) ==
    IF m <= 1 THEN 0 ELSE DaysBeforeMonth(y, m - 1) + DaysInMonth(y, m - 1)
DayNumber(date) == DaysBeforeYear(date.year) + DaysBeforeMonth(date.year, date.month) + date.day

\* The calendar date that a "YYYY-MM-DD" string (as characters) denotes.
ParseISODate(chars) ==
    [year  |-> DigitsValue(SubSeq(chars, 1, 4), 0),
     month |-> DigitsValue(SubSeq(chars, 6, 7), 0),
     day   |-> DigitsValue(SubSeq(chars, 9, 10), 0)]
IsISODate(chars) ==
    /\ Len(chars) = 10 /\ chars[5] = "-" /\ chars[8] = "-"
    /\ \A k \in {1, 2, 3, 4, 6, 7, 9, 10} : IsDigit(chars[k])
    /\ LET d == ParseISODate(chars)
       IN  d.month \in 1..12 /\ d.day \in 1..DaysInMonth(d.year, d.month)

\* C20: the request of getTransactions depends on the latest flag only: with
\* latest it asks for strategy "default" and a start date exactly 5 days before
\* the current date; without it, for strategy "longest" and no start date; in
\* both modes for booked transactions only.
C20_RequestFromLatest ==
    txCall # "idle" =>
        /\ txQuery.transaction_status = "BOOK"
        /\ txParams.latest =>
              /\ DOMAIN txQuery = {"strategy", "transaction_status", "date_from"}
              /\ txQuery.strategy = "default"
              /\ IsISODate(txQuery.date_from)
              /\ DayNumber(ParseISODate(txQuery.date_from)) = DayNumber(txDate) - 5
        /\ ~txParams.latest =>
              /\ DOMAIN txQuery = {"strategy", "transaction_status"}
              /\ txQuery.strategy = "longest"

\* C20 witness: latest mode in early March of a leap year: the start date is
\* 29 February.
C20_Witness ==
    /\ txCall = "pending" /\ txParams.latest
    /\ txDate = [year |-> 2024, month |-> 3, day |-> 5]
    /\ txQuery.date_from = <<"2", "0", "2", "4", "-", "0", "2", "-", "2", "9">>

\* ------------------------------------------------------- C14, C15, C19
CallIds == 1..Len(adapterCalls)
Sent(k) == adapterCalls[k].request # NoRequest
SentCalls == {k \in CallIds : Sent(k)}
SignFailed(k) == adapterCalls[k].state = "settled" /\ ~Sent(k)
HttpFailed(k) ==
    adapterCalls[k].state = "settled" /\ Sent(k) /\ adapterCalls[k].upstream.status = "rejected"

\* C14: every outbound HTTP call that is sent carries a token generated for it
\* after the call was requested; no two calls carry the same token; and the
\* number of tokens generated equals the number of HTTP calls sent (whoever
\* the caller is, so also for the calls made during one getAccounts).
C14_TokenPerCall ==
    /\ \A k \in CallIds :
          /\ adapterCalls[k].state = "sent" => Sent(k)
          /\ Sent(k) =>
                /\ adapterCalls[k].request.bearer.serial > adapterCalls[k].asked
                /\ adapterCalls[k].request.bearer.serial <= tokenCount
                /\ adapterCalls[k].request.method = Method(adapterCalls[k].op)
          /\ (adapterCalls[k].state = "settled" /\ adapterCalls[k].upstream.status = "fulfilled")
                => Sent(k)
    /\ \A k, l \in SentCalls :
          k # l => adapterCalls[k].request.bearer.serial # adapterCalls[l].request.bearer.serial
    /\ tokenCount = Cardinality(SentCalls)

\* C14 witness: a GET and the session DELETE, requested one after the other
\* before either was signed, were sent with two tokens, the DELETE first.
C14_Witness ==
    /\ Len(adapterCalls) = 2 /\ tokenCount = 2
    /\ adapterCalls[1].op = "getAccountDetails" /\ adapterCalls[2].op = "deleteSession"
    /\ adapterCalls[1].asked = 0 /\ adapterCalls[2].asked = 0
    /\ adapterCalls[1].request.bearer.serial = 2 /\ adapterCalls[2].request.bearer.serial = 1
    /\ adapterCalls[2].request.method = "DELETE"

\* C15 as stated: when the signing fails for an operation's call, no HTTP
\* request is sent, no value is substituted, and the operation rejects with the
\* signing (authentication) error.
C15_SigningFailureIsFatal ==
    \A k \in CallIds :
        SignFailed(k) =>
            /\ adapterCalls[k].request = NoRequest
            /\ adapterCalls[k].outcome.status = "rejected"
            /\ adapterCalls[k].outcome.reason = SigningError

\* C19 as stated: when the outbound call of an operation fails (non-2xx or
\* transport), the operation rejects with a ProviderError whose code is the
\* upstream code when the response carries one and the default otherwise.
C19_FailureIsProviderError ==
    \A k \in CallIds :
        HttpFailed(k) =>
            /\ adapterCalls[k].outcome.status = "rejected"
            /\ adapterCalls[k].outcome.reason.name = "ProviderError"
            /\ adapterCalls[k].outcome.reason.code = UpstreamCode(adapterCalls[k].upstream.reason)

\* ------------------------------------------------------------------ C11
CallsOf(route) == {k \in 1..Len(adapterCalls) : adapterCalls[k].caller = route}
ErrorResponse(reason) == [status |-> 400, body |-> createErrorResponse(reason)]

\* What C11 says of DELETE /accounts and of GET /accounts/balance.
C11_OtherRoute(route) ==
    LET r == routes[route]
    IN  /\ r.response.status \in {0, 200, 400}
        /\ r.handler = "idle" <=> CallsOf(route) = {}
        /\ \A k \in CallsOf(route) :
              LET c == adapterCalls[k]
              IN  /\ c.op = DelegatedOperation(route)
                  /\ c.state = "settled" <=> r.handler = "responded"
                  /\ c.state # "settled" => r.response = NoResponse
                  /\ (c.state = "settled" /\ c.upstream.status = "rejected") =>
                        r.response = ErrorResponse(c.upstream.reason)
                  /\ r.response.status = 200 =>
                        (c.upstream.status = "fulfilled" /\ c.outcome.status = "fulfilled")

\* C11: on each of the three routes an error of the delegated operation, of
\* whatever kind, is answered with status 400 and the normalized error body,
\* and status 200 is answered only when the delegated operation succeeded.
C11_ErrorsSurfaceAs400 ==
    /\ \A route \in OtherRoutes : C11_OtherRoute(route)
    /\ response.status \in {0, 200, 400}
    /\ gaResult.status = "rejected" =>
          /\ handler = "responded"
          /\ response \in {ErrorResponse(gaResult.reason), RequestTimeoutResponse}
    /\ response.status = 200 =>
          (gaResult.status = "fulfilled" /\ response.data = gaResult.value)
    /\ response.status = 400 =>
          (gaResult.status = "rejected" \/ response = RequestTimeoutResponse)

\* C11 witness: the three routes have answered 400, for an aggregate failure,
\* a signing failure and an upstream error.
C11_Witness ==
    /\ response = ErrorResponse(AggregateError(reqId))
    /\ routes["DELETE /accounts"].response = ErrorResponse(SigningError)
    /\ routes["GET /accounts/balance"].response.status = 400
    /\ routes["GET /accounts/balance"].response.body.error.message.name = "XiorError"

\* ------------------------------------------------------------ C21, C22
\* C21: the accounts getAccounts returns are the records of the items that
\* succeeded, each once, in the order of their ids in the session's list,
\* whatever the order in which the items of a batch settled; a batch's results
\* are recorded in position order also when a later item settled first.
C21_SessionOrder ==
    /\ [](ga = "returned" =>
            /\ gaResult.value = SuccessesFrom(1)
            /\ \A k, l \in 1..Len(gaResult.value) :
                  k < l => gaResult.value[k].uid < gaResult.value[l].uid)
    /\ [](\A k \in 1..Len(allResults) : allResults[k] = item[k])
    /\ [][Len(allResults') > Len(allResults) =>
            \A j \in (Len(allResults) + 1)..Len(allResults') :
               \A i \in (Len(allResults) + 1)..(j - 1) :
                  (item[i].status = "pending" /\ Settled(item[j]))
                  => (allResults'[i] = item'[i] /\ allResults'[j] = item[j])]_vars

\* C21 witness: five ids, the second failed, the others are returned in the
\* order of the session.
C21_Witness ==
    /\ ga = "returned" /\ N = 5 /\ Rejected(2)
    /\ \A i \in {1, 3, 4, 5} : Fulfilled(i)
    /\ [k \in 1..4 |-> gaResult.value[k].uid] =
          <<AccountIdAt(1), AccountIdAt(3), AccountIdAt(4), AccountIdAt(5)>>

\* C22: an item that is awaited has its timer armed and not overdue, and a batch
\* is open only while one of its items is awaited; once the session lookup has
\* settled getAccounts eventually returns or throws, and
\* the handler that received a request eventually responds, whether or not any
\* provider call ever completes.
C22_EventuallySettles ==
    /\ [](\A i \in Positions : item[i].status = "pending" =>
             (itemTimer[i].state = "armed" /\ now <= itemTimer[i].deadline))
    /\ [](ga = "batch" =>
             \E i \in BatchPositions(accountBatches, batchNo) : item[i].status = "pending")
    /\ [](handler = "waiting" => (reqTimer.state = "armed" /\ now <= reqTimer.deadline))
    /\ (sessionCall \in {"ok", "fail"}) ~> (ga \in {"returned", "thrown"})
    /\ (handler = "waiting") ~> (handler = "responded" /\ response.status \in {200, 400})

\* C22 witness: the handler answered with the request timeout while the session
\* lookup was pending; the lookup settled then, no detail or balance call ever
\* completed, and getAccounts threw after its two batches had timed out.
C22_Witness ==
    /\ response = RequestTimeoutResponse
    /\ ga = "thrown" /\ N = 3 /\ \A i \in Ids : TimedOut(i)
    /\ abandoned = 2 * MAX_CONCURRENT /\ details[3] = "pending" /\ balance[3] = "pending"
    /\ now = TOTAL_TIMEOUT + 2 * ACCOUNT_TIMEOUT

====
